---- MODULE Spec2Model ----
(***************************************************************************)
(* The advisory-lock client of solidlibs (os/lock.py): locked(), lock(),   *)
(* try_to_lock(), unlock(), try_to_unlock(), synchronized(),               *)
(* get_deadline() and connect_to_server(), run by several callers against  *)
(* one safelock server.  The server is external to the repository; it is modelled by    *)
(* its contract (one outstanding grant per name, release by nonce).        *)
(*                                                                         *)
(* Time is counted in poll intervals: one tick is the sleep(0.1) of the    *)
(* retry loops.                                                            *)
(***************************************************************************)
EXTENDS Integers, FiniteSets, Sequences, TLC

\* ---------------------------------------------------------------- bounds
MaxTime == 2
MaxTimeout == 1
MaxNonce == 2

\* ------------------------------------------------------------- constants
\* sleep(0.1), the poll interval, is one tick of the clock
PollInterval == 1
\* the doctest's 'bad nonce': a nonce the server never issued
BadNonce == -1

Callers == {"caller1", "caller2"}
Names == {"lock1", "lock2"}
\* nonce = None
NoNonce == 0

\* ------------------------------------------------------------ call sites
\* A frame of the call stack: the file (its directory and its name) and the
\* line of the call
Frame(dir, file, line) == [dir |-> dir, file |-> file, line |-> line]
NoFrame == Frame("", "", "")

\* the lines of the program from which a decorated function is called
CallSites == {Frame("/app", "jobs.py", "10"), Frame("/app", "jobs.py", "20")}

\* locked(): caller_id(ignore=[__file__, r'.*/contextlib.py'])
LockedIgnore == {"lock.py", "contextlib.py"}

\* traceback.extract_stack() inside caller(), for a locked() with no name
\* that synchronizer enters at line `line` for a call made at site
SynchronizerStack(site, line) ==
    <<site,
      Frame("/solidlibs/os", "lock.py", line),
      Frame("/usr/lib/python3", "contextlib.py", "__enter__"),
      Frame("/solidlibs/os", "lock.py", "116"),
      Frame("/solidlibs/python", "internals.py", "112"),
      Frame("/solidlibs/python", "internals.py", "148")>>

\* caller(): the innermost frame whose file is not ignored; runpy.py and,
\* without this_module_valid, internals.py are ignored too.  The frame is
\* returned without the directory of its file.
caller(stack, ignore) ==
    LET ignored == ignore \cup {"runpy.py", "internals.py"}
        kept == {i \in 1..Len(stack) : stack[i].file \notin ignored}
        innermost == CHOOSE i \in kept : \A j \in kept : j <= i
    IN Frame("", stack[innermost].file, stack[innermost].line)

\* caller_id(): f'{filename}:{line}'
caller_id(stack, ignore) ==
    LET frame == caller(stack, ignore) IN frame.file \o ":" \o frame.line

\* object_name(function) of the decorated function
FunctionName == "jobs.run"

\* a lock name in which the words 'Wrong nonce' occur
WRONG_NONCE_NAME == "Wrong nonce retries"

\* every name the server is asked for
LockNames ==
    Names \cup {WRONG_NONCE_NAME} \cup {caller_id(SynchronizerStack(site, line), LockedIgnore) :
                  site \in CallSites, line \in {"446", "454"}}

LOCK_ACTION == "lock"
UNLOCK_ACTION == "unlock"
WHY_UNKNOWN == "safelock did not say why"
WRONG_NONCE == "Wrong nonce"
ALREADY_LOCKED == "already locked"
NOT_LOCKED == "not locked"
Absent == "<absent>"

\* os.getpid() of a caller, a token per caller
getpid(c) == c

\* ---------------------------------------------------------------- timeouts
\* timeout is None, a number of seconds (or timedelta), or a value of
\* another type
NoTimeout == [kind |-> "None", v |-> 0]
BadTimeoutValue == [kind |-> "str", v |-> 0]
Timeouts ==
    {NoTimeout, BadTimeoutValue} \cup [kind : {"seconds"}, v : 0..MaxTimeout]

\* get_deadline: None gives no deadline ({}), a number or timedelta gives
\* now() + timeout, anything else raises ValueError
get_deadline_raises(timeout) == timeout.kind \notin {"None", "seconds"}

get_deadline_always(timeout, t) == {t + timeout.v}

get_deadline(timeout, t) ==
    IF timeout.kind = "None" THEN {} ELSE {t + timeout.v}

\* `deadline and now() > deadline`
DeadlinePassedLate(deadline, t) == \E d \in deadline : t > d + PollInterval

DeadlinePassed(deadline, t) == \E d \in deadline : t > d

\* ---------------------------------------------------------------- messages
\* The text of an exception, kept as the template and what was formatted in
Msg(text, lockname, why) == [text |-> text, lockname |-> lockname, why |-> why]

NoMsg == Msg("", "", "")
NO_SERVER_MESSAGE == Msg("No lock server", "", "")
SERVER_DOWN_MESSAGE == Msg("probably safelock server down", "", "")
REJECTED_LOCK_MESSAGE(lockname, why) == Msg("rejected lock", lockname, why)
REJECTED_UNLOCK_MESSAGE(lockname, why) == Msg("rejected unlock", lockname, why)

\* 'Wrong nonce' in s, for the strings that are formatted into a message
Contains(s) == s \in {WRONG_NONCE, WRONG_NONCE_NAME}

\* 'Wrong nonce' in str(lf): the text of the exception is the template with
\* the lock name and the server's reason formatted in
NeverWrongNonceIn(message) == FALSE

WrongNonceIn(message) == Contains(message.lockname) \/ Contains(message.why)

Exc(type, message) == [type |-> type, msg |-> message]
NoExc == Exc("none", NoMsg)
ValueError == Exc("ValueError", NoMsg)

\* ---------------------------------------------------------------- server
\* The safelock server's table: the nonce of the outstanding grant of each
\* name, NoNonce when the name is free.
\* (missing is the key that the dict of a badly formed response lacks)
NoKey == ""

Response(ok, action, lockname, nonce, message) ==
    [parsed |-> TRUE, ok |-> ok, action |-> action, lockname |-> lockname,
     nonce |-> nonce, message |-> message, missing |-> NoKey]

\* a response eval() cannot parse
Unparseable ==
    [parsed |-> FALSE, ok |-> FALSE, action |-> Absent, lockname |-> Absent,
     nonce |-> NoNonce, message |-> Absent, missing |-> NoKey]

\* a lock request: granted with a fresh nonce when the name is free
ServerLock(h, nn, lockname) ==
    IF h[lockname] = NoNonce
    THEN [holder |-> [h EXCEPT ![lockname] = nn], nextNonce |-> nn + 1,
          response |-> Response(TRUE, LOCK_ACTION, lockname, nn, Absent)]
    ELSE [holder |-> h, nextNonce |-> nn,
          response |-> Response(FALSE, LOCK_ACTION, lockname, NoNonce,
                                ALREADY_LOCKED)]

\* an unlock request: released only by the nonce of the outstanding grant
ServerUnlock(h, lockname, nonce, why) ==
    IF h[lockname] # NoNonce /\ h[lockname] = nonce
    THEN [holder |-> [h EXCEPT ![lockname] = NoNonce],
          response |-> Response(TRUE, UNLOCK_ACTION, lockname, nonce, Absent)]
    ELSE [holder |-> h,
          response |-> Response(FALSE, UNLOCK_ACTION, lockname, NoNonce,
                                IF h[lockname] # NoNonce THEN WRONG_NONCE
                                ELSE why)]

\* what the server may say to an unlock of a name nobody holds
UnheldReasons == {WRONG_NONCE, NOT_LOCKED}

\* ---------------------------------------------------------------- network
\* What one connection of an attempt meets:
\*   refused     connect() raises ConnectionRefusedError (no server listening)
\*   timeout     the socket raises TimeoutError
\*   broken_pipe sendall() raises BrokenPipeError
\*   reset       recv() raises another OSError (ConnectionResetError)
\*   closed      the server closes without handling the request: recv() gives b''
\*   garbled     the server handles the request, the bytes read do not parse
\*   reply       the server handles the request and its response is read
\*   missing_<key>  the server handles the request; the response read
\*                  parses to a dict without <key>
\*   wrong_action   the server handles the request; the response read echoes
\*                  the other action
\*   wrong_name     the server handles the request; the response read echoes
\*                  another lock name
EventsUp == {"timeout", "broken_pipe", "reset", "closed", "garbled", "reply"}
EventsDown == {"refused"}
Events == EventsUp \cup EventsDown
MissingKeyEvents ==
    {"missing_ok", "missing_action", "missing_lockname", "missing_nonce"}
WrongEchoEvents == {"wrong_action", "wrong_name"}
\* whether a connection can meet ev while the server listens (up) or not
Possible(ev, up) ==
    IF up THEN ev \in EventsUp \cup MissingKeyEvents \cup WrongEchoEvents
    ELSE ev \in EventsDown
\* the events in which the server handles the request
Handled == {"garbled", "reply"} \cup MissingKeyEvents \cup WrongEchoEvents

\* the name echoed in place of the requested one
ANOTHER_NAME == "another lock"

\* the bytes recv() gives to eval()
Received(ev, response) ==
    CASE ev = "reply" -> response
      [] ev = "missing_ok" -> [response EXCEPT !.missing = "ok"]
      [] ev = "missing_action" -> [response EXCEPT !.missing = "action"]
      [] ev = "missing_lockname" -> [response EXCEPT !.missing = "lockname"]
      [] ev = "missing_nonce" -> [response EXCEPT !.missing = "nonce"]
      [] ev = "wrong_action" ->
           [response EXCEPT !.action = IF @ = LOCK_ACTION THEN UNLOCK_ACTION
                                       ELSE LOCK_ACTION]
      [] ev = "wrong_name" -> [response EXCEPT !.lockname = ANOTHER_NAME]
      [] OTHER -> Unparseable

\* What one attempt does with its socket: `with socket.socket(...) as sock`
\* makes one socket and closes it when the block is left, by return or by
\* exception; inside, one sendall() once connected and one recv() once sent.
\* (sent and received count the requests sent and the responses read, open
\* the sockets still open when the attempt has returned or raised)
SocketLeftOpenOnRaise(ev) ==
    [sockets |-> 1,
     sent |-> IF ev \in {"refused", "timeout", "broken_pipe"} THEN 0 ELSE 1,
     received |-> IF ev \in {"refused", "timeout", "broken_pipe", "reset"}
                  THEN 0 ELSE 1,
     open |-> IF ev \in {"timeout", "broken_pipe", "reset"} THEN 1 ELSE 0]

Socket(ev) ==
    [sockets |-> 1,
     sent |-> IF ev \in {"refused", "timeout", "broken_pipe"} THEN 0 ELSE 1,
     received |-> IF ev \in {"refused", "timeout", "broken_pipe", "reset"}
                  THEN 0 ELSE 1,
     open |-> 0]

\* no attempt made
NoSocket == [sockets |-> 0, sent |-> 0, received |-> 0, open |-> 0]

\* the dict an attempt sends
LockRequest(lockname, pid) ==
    [action |-> LOCK_ACTION, lockname |-> lockname, nonce |-> NoNonce,
     pid |-> pid]

UnlockRequestNoNonce(lockname, nonce, pid) ==
    [action |-> UNLOCK_ACTION, lockname |-> lockname, nonce |-> NoNonce,
     pid |-> pid]

UnlockRequest(lockname, nonce, pid) ==
    [action |-> UNLOCK_ACTION, lockname |-> lockname, nonce |-> nonce,
     pid |-> pid]

NoRequest == [action |-> "", lockname |-> "", nonce |-> NoNonce, pid |-> ""]

\* ---------------------------------------------------------------- client
\* What one attempt writes to the log before it returns or raises
NoLog == ""
LOG_NO_SERVER_ERROR == "error: No lock server"
LOG_NO_SERVER_WARNING == "warning: No lock server"
LOG_BROKEN_PIPE == "warning: BrokenPipeError"
LOG_FORMAT_EXC == "format_exc()"
LOG_TIMEOUT_ERROR == "str(te)"
LOG_LOCK_TIMED_OUT == "warning: lock timed out"
LOG_UNLOCK_TIMED_OUT == "warning: unlock timed out"

\* connect_to_server: refused with server_required logs an error and raises
\* LockFailed, refused without it logs a warning and returns False
connect_to_server_required(ev, server_required) ==
    IF ev = "refused"
    THEN [exc |-> Exc("LockFailed", NO_SERVER_MESSAGE), connected |-> FALSE,
          log |-> LOG_NO_SERVER_ERROR]
    ELSE IF ev = "timeout"
         THEN [exc |-> Exc("TimeoutError", NoMsg), connected |-> FALSE,
               log |-> NoLog]
         ELSE [exc |-> NoExc, connected |-> TRUE, log |-> NoLog]

connect_to_server(ev, server_required) ==
    IF ev = "refused"
    THEN IF server_required
         THEN [exc |-> Exc("LockFailed", NO_SERVER_MESSAGE), connected |-> FALSE,
               log |-> LOG_NO_SERVER_ERROR]
         ELSE [exc |-> NoExc, connected |-> FALSE,
               log |-> LOG_NO_SERVER_WARNING]
    ELSE IF ev = "timeout"
         THEN [exc |-> Exc("TimeoutError", NoMsg), connected |-> FALSE,
               log |-> NoLog]
         ELSE [exc |-> NoExc, connected |-> TRUE, log |-> NoLog]

\* is_locked = response[OK_KEY] and response[ACTION_KEY] == LOCK_ACTION and
\*             response[LOCKNAME_KEY] == lockname
GrantAcceptedAnyName(response, lockname) ==
    response.ok /\ response.action = LOCK_ACTION

GrantAcceptedAnyOk(response, lockname) ==
    response.action = LOCK_ACTION /\ response.lockname = lockname

GrantAccepted(response, lockname) ==
    response.ok /\ response.action = LOCK_ACTION /\ response.lockname = lockname

\* response[key] for a key the dict lacks raises KeyError(key)
KeyError(key) == Exc("KeyError", Msg(key, "", ""))

\* whether try_to_lock subscripts the response with the key it lacks:
\* response[OK_KEY] and response[ACTION_KEY] == ... and
\* response[LOCKNAME_KEY] == lockname are evaluated left to right as far as
\* they are true, then response[NONCE_KEY] if is_locked
LockKeyError(response, lockname) ==
    \/ response.missing = "ok"
    \/ response.missing = "action" /\ response.ok
    \/ response.missing = "lockname" /\ response.ok
          /\ response.action = LOCK_ACTION
    \/ response.missing = "nonce" /\ response.ok
          /\ response.action = LOCK_ACTION /\ response.lockname = lockname

\* the same for try_to_unlock: response[OK_KEY] and
\* response[ACTION_KEY] == UNLOCK_ACTION and response[NONCE_KEY] == nonce
UnlockKeyError(response, nonce) ==
    \/ response.missing = "ok"
    \/ response.missing = "action" /\ response.ok
    \/ response.missing = "nonce" /\ response.ok
          /\ response.action = UNLOCK_ACTION

\* nonce = response[NONCE_KEY]
GrantedNonceNone(response) == NoNonce

GrantedNonce(response) == response.nonce

RejectionReason(response) ==
    IF response.message # Absent THEN response.message ELSE WHY_UNKNOWN

Attempt(exc, is_locked, nonce, logged) ==
    [exc |-> exc, is_locked |-> is_locked, nonce |-> nonce, log |-> logged]

\* try_to_lock, when eval() of the response raises: log(format_exc()),
\* is_locked = False, and nonce is still None
UnparseableLockGranted == Attempt(NoExc, TRUE, BadNonce, NoLog)

UnparseableLock == Attempt(NoExc, FALSE, NoNonce, LOG_FORMAT_EXC)

\* try_to_lock: one connection, one request, one response
try_to_lock(lockname, pid, server_required, ev, received) ==
    LET conn == connect_to_server(ev, server_required) IN
    IF conn.exc # NoExc THEN Attempt(conn.exc, FALSE, NoNonce, conn.log)
    ELSE IF ~conn.connected THEN Attempt(NoExc, FALSE, NoNonce, conn.log)
    ELSE IF ev = "broken_pipe"
         THEN Attempt(Exc("LockFailed", SERVER_DOWN_MESSAGE), FALSE, NoNonce,
                      LOG_BROKEN_PIPE)
    ELSE IF ev = "reset"
         THEN Attempt(Exc("ConnectionResetError", NoMsg), FALSE, NoNonce, NoLog)
    ELSE IF ~received.parsed THEN UnparseableLock
    ELSE IF LockKeyError(received, lockname)
         THEN Attempt(KeyError(received.missing), FALSE, NoNonce, NoLog)
    ELSE IF GrantAccepted(received, lockname)
         THEN Attempt(NoExc, TRUE, GrantedNonce(received), NoLog)
    ELSE Attempt(Exc("LockFailed",
                     REJECTED_LOCK_MESSAGE(lockname, RejectionReason(received))),
                 FALSE, NoNonce, NoLog)

\* response[OK_KEY] and response[ACTION_KEY] == UNLOCK_ACTION and
\* response[NONCE_KEY] == nonce
ReleaseConfirmedAsLock(response, nonce) ==
    response.ok /\ response.action = LOCK_ACTION /\ response.nonce = nonce

ReleaseConfirmed(response, nonce) ==
    response.ok /\ response.action = UNLOCK_ACTION /\ response.nonce = nonce

\* try_to_unlock: is_locked starts True; an unparseable response sets it False
try_to_unlock(lockname, nonce, pid, server_required, ev, received) ==
    LET conn == connect_to_server(ev, server_required) IN
    IF conn.exc # NoExc THEN Attempt(conn.exc, TRUE, nonce, conn.log)
    ELSE IF ~conn.connected THEN Attempt(NoExc, TRUE, nonce, conn.log)
    ELSE IF ev = "broken_pipe"
         THEN Attempt(Exc("LockFailed", SERVER_DOWN_MESSAGE), TRUE, nonce,
                      LOG_BROKEN_PIPE)
    ELSE IF ev = "reset"
         THEN Attempt(Exc("ConnectionResetError", NoMsg), TRUE, nonce, NoLog)
    ELSE IF ~received.parsed THEN Attempt(NoExc, FALSE, nonce, LOG_FORMAT_EXC)
    ELSE IF UnlockKeyError(received, nonce)
         THEN Attempt(KeyError(received.missing), TRUE, nonce, NoLog)
    ELSE IF ReleaseConfirmed(received, nonce)
         THEN Attempt(NoExc, FALSE, nonce, NoLog)
    ELSE Attempt(Exc("LockFailed",
                     REJECTED_UNLOCK_MESSAGE(lockname, RejectionReason(received))),
                 TRUE, nonce, NoLog)

\* The except clauses of the retry loops of lock() and unlock(): TimeoutError
\* is logged; LockFailed is re-raised when 'Wrong nonce' is in its text and
\* logged otherwise; anything else is logged and re-raised.
Reraised(exc) ==
    CASE exc.type = "none" -> FALSE
      [] exc.type = "TimeoutError" -> FALSE
      [] exc.type = "LockFailed" -> WrongNonceIn(exc.msg)
      [] OTHER -> TRUE

\* What the except clauses of the retry loops log whatever was logged
\* before: log(str(te)) for TimeoutError, log(format_exc()) in the bare
\* except; the LockFailed clause logs nothing before its raise, and
\* otherwise its message unless it is last_warning (see Warn)
LoopLog(exc) ==
    CASE exc.type = "none" -> NoLog
      [] exc.type = "TimeoutError" -> LOG_TIMEOUT_ERROR
      [] exc.type = "LockFailed" -> NoLog
      [] OTHER -> LOG_FORMAT_EXC

\* the log entry of one pass of a retry loop that does not depend on
\* last_warning: the entry of the attempt, or else of the except clause
PassLog(a) == IF a.log # NoLog THEN a.log ELSE LoopLog(a.exc)

\* The warnings of the LockFailed clause of one call of lock() or unlock():
\* last_warning, the messages logged so far, and those of them logged more
\* than once.  They are recorded only where on is true.
Warnings(on) ==
    [on |-> on, last_warning |-> NoMsg, logged |-> {}, repeated |-> {}]

\* last_warning = None
NewCall(w) == Warnings(w.on)

\* message = lf.args[0]
\* if message != last_warning: last_warning = message; log(message)
Warn(w, exc) ==
    IF ~w.on \/ exc.type # "LockFailed" THEN w
    ELSE IF exc.msg # w.last_warning
         THEN [w EXCEPT !.last_warning = exc.msg,
                        !.logged = @ \cup {exc.msg},
                        !.repeated = @ \cup ({exc.msg} \cap w.logged)]
         ELSE w

\* lock(): `while not is_locked`: the loop ends, and lock() returns, once an
\* attempt has returned a true is_locked
LockLoopEndsAnyway(is_locked) == TRUE

LockLoopEnds(is_locked) == is_locked

\* lock(): raise LockTimeout(f'lock timed out: {lockname}')
LockTimedOutUnnamed(lockname) == Exc("LockTimeout", Msg("lock timed out", "", ""))

LockTimedOut(lockname) == Exc("LockTimeout", Msg("lock timed out", lockname, ""))

\* unlock(): raise LockTimeout(warning_msg), where no warning_msg is defined
UnlockTimedOut(lockname) ==
    Exc("NameError", Msg("name 'warning_msg' is not defined", "", ""))

\* locked(): finally: if is_locked: unlock(...)
NeverReleaseOnExit(is_locked) == FALSE

ReleaseOnExit(is_locked) == is_locked

\* ---------------------------------------------------------------- state
VARIABLES
    now,        \* now(), in poll intervals
    serverUp,   \* whether a server listens on BIND_ADDR
    holder,     \* the server's table: name -> nonce of the outstanding grant
    nextNonce,  \* the next nonce the server issues
    cl,         \* each caller's call in progress: its position and locals
    held,       \* the (lockname, nonce) pairs a caller got from lock() and keeps
    result,     \* how each caller's last call ended
    other,      \* the names held by clients of the server other than Callers
    synchronized_locks,  \* the synchronized_locks dict: (name, lock) pairs
    warnings    \* each caller's warnings in its current lock() or unlock()

vars == <<now, serverUp, holder, nextNonce, cl, held, result, other,
          synchronized_locks, warnings>>

\* a caller outside any call
\* (late, block_ran, unlock_calls and unlock_sent record what the call has
\* done so far: attempts made after the deadline, whether the managed block
\* was entered, calls of unlock() by locked(), an unlock request sent;
\* logged is what the last attempt wrote to the log; ran counts the poll
\* intervals the managed block has run for, up to one more than its
\* timeout, and overran says it ran for longer than the timeout;
\* wire and request are what the last attempt did with its socket and the
\* dict it sent;
\* sync is where a call of a synchronized function is: in the locked() that
\* looks up the registry, or in the locked() that runs the function; site
\* is the line the function was called from)
IdleCaller ==
    [pc |-> "idle", op |-> "none", lockname |-> "", timeout |-> NoTimeout,
     server_required |-> TRUE, pid |-> "", deadline |-> {},
     is_locked |-> FALSE, nonce |-> NoNonce, pending |-> "none",
     last |-> "none", late |-> 0, block_ran |-> FALSE, unlock_calls |-> 0,
     unlock_sent |-> FALSE, logged |-> NoLog, ran |-> 0, overran |-> FALSE,
     sync |-> "none", site |-> NoFrame, wire |-> NoSocket,
     request |-> NoRequest]

\* what a call leaves behind: the exception it raised (or none), what it
\* returned, and what locked() did on the way
\* (lock_exc is what lock() raised and unlock_ret what unlock() returned
\* inside locked())
Ended(l, exc, ret, lock_exc, unlock_ret) ==
    [op |-> l.op, exc |-> exc, ret |-> ret, nonce |-> l.nonce, pid |-> l.pid,
     lock_exc |-> lock_exc, block_ran |-> l.block_ran, pending |-> l.pending,
     unlock_calls |-> l.unlock_calls, unlock_sent |-> l.unlock_sent,
     unlock_ret |-> unlock_ret, last |-> l.last, late |-> l.late,
     overran |-> l.overran, logged |-> l.logged, wire |-> l.wire,
     request |-> l.request]

NoResult == Ended(IdleCaller, NoExc, FALSE, NoExc, FALSE)

InitWith(w) ==
    /\ now = 0
    /\ serverUp \in BOOLEAN
    /\ holder = [n \in LockNames |-> NoNonce]
    /\ nextNonce = 1
    /\ cl = [c \in Callers |-> IdleCaller]
    /\ held = [c \in Callers |-> {}]
    /\ result = [c \in Callers |-> NoResult]
    /\ other = {}
    /\ synchronized_locks = {}
    /\ warnings = [c \in Callers |-> w]

\* the warnings of the calls are not recorded
Init == InitWith(Warnings(FALSE))

\* whether an attempt made at time t is made after the deadline
AfterDeadline(deadline, t) == \E d \in deadline : t > d

\* ---------------------------------------------------------------- calls
\* locked(): except Exception: log.exception(); raise
\* what leaves the call op when its lock() raises exc
SwallowedExcept(op, exc) == IF op = "locked" THEN NoExc ELSE exc

LockedExcept(op, exc) == exc

\* locked(lockname, timeout, server_required) and lock(lockname, timeout,
\* server_required) up to the retry loop: get_deadline() raises ValueError
\* for a timeout of another type, which locked() logs and re-raises
\* (lock() reads timeout only here; locked() passes it on to unlock())
Start(c, op, lockname, timeout, server_required) ==
    /\ cl[c].pc = "idle"
    /\ op \in {"locked", "lock"}
    /\ LET l == [IdleCaller EXCEPT !.op = op, !.lockname = lockname,
                                   !.timeout = IF op = "locked" THEN timeout
                                                ELSE NoTimeout,
                                   !.server_required = server_required,
                                   !.pid = getpid(c)]
       IN IF get_deadline_raises(timeout)
          THEN /\ result' = [result EXCEPT
                               ![c] = Ended(l, LockedExcept(l.op, ValueError),
                                            FALSE, ValueError, FALSE)]
               /\ cl' = cl
          ELSE /\ cl' = [cl EXCEPT ![c] =
                           [l EXCEPT !.pc = "lock_try",
                                     !.deadline = get_deadline(timeout, now)]]
               /\ result' = [result EXCEPT ![c] = NoResult]
    /\ warnings' = [warnings EXCEPT ![c] = NewCall(@)]
    /\ UNCHANGED <<now, serverUp, holder, nextNonce, held, other,
                 synchronized_locks>>

\* lock() raises exc; inside locked() the except clause logs and re-raises it
LockRaise(c, l, exc) ==
    /\ cl' = [cl EXCEPT ![c] = IdleCaller]
    /\ result' = [result EXCEPT
                    ![c] = Ended(l, LockedExcept(l.op, exc), FALSE, exc, FALSE)]
    /\ held' = held

\* lock() returns (is_locked, nonce, pid); inside locked() the block starts
LockReturnInTime(c, l, nonce) ==
    IF l.late > 0
    THEN LockRaise(c, [l EXCEPT !.logged = LOG_LOCK_TIMED_OUT],
                   LockTimedOut(l.lockname))
    ELSE IF l.op = "locked"
    THEN /\ cl' = [cl EXCEPT ![c] = [l EXCEPT !.pc = "block", !.is_locked = TRUE,
                                             !.nonce = nonce,
                                             !.block_ran = TRUE]]
         /\ UNCHANGED <<held, result>>
    ELSE /\ cl' = [cl EXCEPT ![c] = IdleCaller]
         /\ held' = [held EXCEPT ![c] = @ \cup {<<l.lockname, nonce>>}]
         /\ result' = [result EXCEPT
                         ![c] = Ended([l EXCEPT !.nonce = nonce], NoExc, TRUE,
                                      NoExc, FALSE)]

LockReturn(c, l, nonce) ==
    IF l.op = "locked"
    THEN /\ cl' = [cl EXCEPT ![c] = [l EXCEPT !.pc = "block", !.is_locked = TRUE,
                                             !.nonce = nonce,
                                             !.block_ran = TRUE]]
         /\ UNCHANGED <<held, result>>
    ELSE /\ cl' = [cl EXCEPT ![c] = IdleCaller]
         /\ held' = [held EXCEPT ![c] = @ \cup {<<l.lockname, nonce>>}]
         /\ result' = [result EXCEPT
                         ![c] = Ended([l EXCEPT !.nonce = nonce], NoExc, TRUE,
                                      NoExc, FALSE)]

\* the grants the server issues in a run: a call of a synchronized function
\* takes two
NonceBound(sync) == IF sync = "none" THEN MaxNonce ELSE 2 * MaxNonce

\* one pass of lock()'s loop up to `if not is_locked`: try_to_lock and the
\* except clauses
TryToLock(c, ev) ==
    /\ cl[c].pc = "lock_try"
    /\ Possible(ev, serverUp)
    /\   LET l0 == cl[c]
             sent == IF Socket(ev).sent = 1
                     THEN LockRequest(l0.lockname, l0.pid) ELSE NoRequest
             srv == IF ev \in Handled
                    THEN ServerLock(holder, nextNonce, sent.lockname)
                    ELSE [holder |-> holder, nextNonce |-> nextNonce,
                          response |-> Unparseable]
             a == try_to_lock(l0.lockname, l0.pid, l0.server_required, ev,
                              Received(ev, srv.response))
             l == [l0 EXCEPT !.last = ev,
                             !.late = @ + (IF AfterDeadline(l0.deadline, now)
                                           THEN 1 ELSE 0),
                             !.wire = Socket(ev), !.request = sent,
                             !.logged = PassLog(a)]
         IN /\ srv.nextNonce <= NonceBound(l.sync) + 1
            /\ holder' = srv.holder
            /\ nextNonce' = srv.nextNonce
            /\ IF Reraised(a.exc) THEN LockRaise(c, l, a.exc)
               ELSE IF a.exc = NoExc /\ LockLoopEnds(a.is_locked)
                    THEN LockReturn(c, l, a.nonce)
               ELSE /\ cl' = [cl EXCEPT ![c] = [l EXCEPT !.pc = "lock_check"]]
                    /\ UNCHANGED <<held, result>>
            /\ warnings' = [warnings EXCEPT ![c] =
                               IF cl'[c].pc = "lock_check"
                               THEN Warn(@, a.exc) ELSE @]
    /\ UNCHANGED <<now, serverUp, other, synchronized_locks>>

\* lock(): if not is_locked: the deadline check, then sleep(0.1)
LockCheck(c) ==
    /\ cl[c].pc = "lock_check"
    /\ IF DeadlinePassed(cl[c].deadline, now)
       THEN LockRaise(c, [cl[c] EXCEPT !.logged = LOG_LOCK_TIMED_OUT],
                      LockTimedOut(cl[c].lockname))
       ELSE /\ cl' = [cl EXCEPT ![c].pc = "lock_sleep", ![c].last = "none",
                                ![c].logged = NoLog, ![c].wire = NoSocket,
                                ![c].request = NoRequest]
            /\ UNCHANGED <<held, result>>
    /\ UNCHANGED <<now, serverUp, holder, nextNonce, other,
                 synchronized_locks, warnings>>

\* unlock() raises exc; in locked() it leaves the finally clause in place
\* of whatever the block raised
UnlockRaise(c, l, exc) ==
    /\ cl' = [cl EXCEPT ![c] = IdleCaller]
    /\ result' = [result EXCEPT ![c] = Ended(l, exc, FALSE, NoExc, FALSE)]

\* locked(): the finally clause ends without raising: the exception the
\* block raised, if any, goes on to the caller
FinallySwallows(pending) == NoExc

AfterFinally(pending) ==
    IF pending = "none" THEN NoExc ELSE Exc(pending, NoMsg)

\* synchronizer: the second `with locked():`, entered when the first has
\* ended; it runs the function
SynchronizedBody(l, t) ==
    [IdleCaller EXCEPT
       !.pc = "lock_try", !.op = "locked", !.sync = "body", !.site = l.site,
       !.lockname = caller_id(SynchronizerStack(l.site, "454"), LockedIgnore),
       !.pid = l.pid, !.deadline = get_deadline(NoTimeout, t)]

\* unlock() returns `not is_locked`, or locked() finds nothing to release;
\* a locked() that ends without an exception in synchronizer is followed
\* by the next statement of synchronizer
UnlockReturn(c, l, called) ==
    IF l.sync = "registry" /\ AfterFinally(l.pending) = NoExc
    THEN /\ cl' = [cl EXCEPT ![c] = SynchronizedBody(l, now)]
         /\ result' = result
    ELSE /\ cl' = [cl EXCEPT ![c] = IdleCaller]
         /\ result' = [result EXCEPT ![c] =
                         IF l.op = "locked"
                         THEN Ended(l, AfterFinally(l.pending), FALSE, NoExc,
                                    called /\ ~l.is_locked)
                         ELSE Ended(l, NoExc, ~l.is_locked, NoExc, FALSE)]

\* unlock() up to its retry loop, as locked() and a direct caller enter it:
\* deadline = get_deadline(timeout)
EnterUnlockOldDeadline(l, timeout, t) ==
    [l EXCEPT !.pc = "unlock_try",
              !.is_locked = TRUE, !.unlock_calls = @ + 1, !.late = 0,
              !.last = "none", !.logged = NoLog, !.wire = NoSocket,
              !.request = NoRequest]

EnterUnlock(l, timeout, t) ==
    [l EXCEPT !.pc = "unlock_try", !.deadline = get_deadline(timeout, t),
              !.is_locked = TRUE, !.unlock_calls = @ + 1, !.late = 0,
              !.last = "none", !.logged = NoLog, !.wire = NoSocket,
              !.request = NoRequest]

\* whether the managed block has run for longer than the timeout of locked()
Overran(l) == l.timeout.kind = "seconds" /\ l.ran > l.timeout.v

\* The managed block of locked() ends: normally, by an early return or
\* break, or by raising E.  The finally clause calls unlock() if is_locked.
Block(c, how) ==
    /\ cl[c].pc = "block"
    /\ cl[c].sync # "registry"
    /\ how \in {"normal", "early", "E"}
    /\ LET l == [cl[c] EXCEPT !.pending = IF how = "E" THEN "E" ELSE "none",
                              !.overran = Overran(cl[c]), !.ran = 0]
       IN IF ReleaseOnExit(l.is_locked)
          THEN /\ cl' = [cl EXCEPT ![c] = EnterUnlock(l, l.timeout, now)]
               /\ result' = result
          ELSE UnlockReturn(c, l, FALSE)
    /\ warnings' = [warnings EXCEPT ![c] = NewCall(@)]
    /\ UNCHANGED <<now, serverUp, holder, nextNonce, held, other,
                 synchronized_locks>>

\* synchronizer(*args, **kwargs), the wrapper of a function decorated with
\* @synchronized, called from site: it enters `with locked():` with no
\* name, timeout or server_required
Synchronized(c, site) ==
    /\ cl[c].pc = "idle"
    /\ cl' = [cl EXCEPT ![c] =
                [IdleCaller EXCEPT
                   !.pc = "lock_try", !.op = "locked", !.sync = "registry",
                   !.site = site,
                   !.lockname = caller_id(SynchronizerStack(site, "446"),
                                          LockedIgnore),
                   !.pid = getpid(c),
                   !.deadline = get_deadline(NoTimeout, now)]]
    /\ result' = [result EXCEPT ![c] = NoResult]
    /\ warnings' = [warnings EXCEPT ![c] = NewCall(@)]
    /\ UNCHANGED <<now, serverUp, holder, nextNonce, held, other,
                 synchronized_locks>>

\* lock_name in synchronized_locks
InRegistry(locks, lock_name) == \E entry \in locks : entry[1] = lock_name

\* synchronized_locks[lock_name] = synch_lock
Stored(locks, lock_name, synch_lock) ==
    {entry \in locks : entry[1] # lock_name} \cup {<<lock_name, synch_lock>>}

\* synchronizer: the end of the block of the first `with locked():`; the
\* lock found or made is not used, and the finally clause of locked() calls
\* unlock()
RegistryExit(c) ==
    /\ IF ReleaseOnExit(cl[c].is_locked)
       THEN /\ cl' = [cl EXCEPT ![c] = EnterUnlock(cl[c], cl[c].timeout, now)]
            /\ result' = result
       ELSE UnlockReturn(c, cl[c], FALSE)
    /\ warnings' = [warnings EXCEPT ![c] = NewCall(@)]

\* synchronizer: the block of the first `with locked():` looks the function
\* up in synchronized_locks: the entry found is read, and the block ends; if
\* there is none, a threading.Lock() is made next
Registry(c) ==
    /\ cl[c].pc = "block"
    /\ cl[c].sync = "registry"
    /\ IF InRegistry(synchronized_locks, FunctionName)
       THEN RegistryExit(c)
       ELSE /\ cl' = [cl EXCEPT ![c].pc = "registry_store"]
            /\ UNCHANGED <<result, warnings>>
    /\ UNCHANGED <<now, serverUp, holder, nextNonce, held, other,
                   synchronized_locks>>

\* synchronizer: the threading.Lock() thread c made is stored under the
\* name of the function, and the block ends
RegistryStore(c) ==
    /\ cl[c].pc = "registry_store"
    /\ synchronized_locks' = Stored(synchronized_locks, FunctionName, c)
    /\ RegistryExit(c)
    /\ UNCHANGED <<now, serverUp, holder, nextNonce, held, other>>

\* unlock(lockname, nonce, pid, timeout, server_required) called directly,
\* with a pair lock() returned, with the nonce lock() returned for another
\* name, or with a nonce the server never issued
StartUnlock(c, lockname, nonce, timeout, server_required) ==
    /\ cl[c].pc = "idle"
    /\ \/ nonce = BadNonce
       \/ \E p \in held[c] : p[2] = nonce
    /\ LET l == [IdleCaller EXCEPT !.op = "unlock", !.lockname = lockname,
                                   !.nonce = nonce, !.pid = getpid(c),
                                   !.server_required = server_required]
       IN IF get_deadline_raises(timeout)
          THEN /\ result' = [result EXCEPT
                               ![c] = Ended(l, ValueError, FALSE, NoExc, FALSE)]
               /\ UNCHANGED <<cl, held>>
          ELSE /\ cl' = [cl EXCEPT ![c] = EnterUnlock(l, timeout, now)]
               /\ held' = [held EXCEPT ![c] = @ \ {<<lockname, nonce>>}]
               /\ result' = [result EXCEPT ![c] = NoResult]
    /\ warnings' = [warnings EXCEPT ![c] = NewCall(@)]
    /\ UNCHANGED <<now, serverUp, holder, nextNonce, other,
                 synchronized_locks>>

\* one pass of unlock()'s loop up to `if is_locked`: try_to_unlock and the
\* except clauses
TryToUnlock(c, ev) ==
    /\ cl[c].pc = "unlock_try"
    /\ Possible(ev, serverUp)
    /\ \E why \in UnheldReasons :
         LET l0 == cl[c]
             sent == IF Socket(ev).sent = 1
                     THEN UnlockRequest(l0.lockname, l0.nonce, l0.pid)
                     ELSE NoRequest
             srv == IF ev \in Handled
                    THEN ServerUnlock(holder, sent.lockname, sent.nonce, why)
                    ELSE [holder |-> holder, response |-> Unparseable]
             a == try_to_unlock(l0.lockname, l0.nonce, l0.pid,
                                l0.server_required, ev,
                                Received(ev, srv.response))
             l == [l0 EXCEPT !.last = ev,
                             !.unlock_sent = @ \/ ev # "refused",
                             !.late = @ + (IF AfterDeadline(l0.deadline, now)
                                           THEN 1 ELSE 0),
                             !.wire = Socket(ev), !.request = sent,
                             !.logged = PassLog(a)]
         IN /\ holder' = srv.holder
            /\ IF Reraised(a.exc) THEN UnlockRaise(c, l, a.exc)
               ELSE IF a.exc = NoExc /\ ~a.is_locked
                    THEN UnlockReturn(c, [l EXCEPT !.is_locked = FALSE], TRUE)
               ELSE cl' = [cl EXCEPT ![c] = [l EXCEPT !.pc = "unlock_check"]]
                    /\ result' = result
            /\ warnings' = [warnings EXCEPT ![c] =
                               IF cl'[c].pc = "unlock_check"
                               THEN Warn(@, a.exc) ELSE NewCall(@)]
    /\ UNCHANGED <<now, serverUp, nextNonce, held, other,
                 synchronized_locks>>

\* unlock(): if is_locked: the deadline check, then sleep(0.1)
UnlockCheck(c) ==
    /\ cl[c].pc = "unlock_check"
    /\ IF DeadlinePassed(cl[c].deadline, now)
       THEN UnlockRaise(c, [cl[c] EXCEPT !.logged = LOG_UNLOCK_TIMED_OUT],
                        UnlockTimedOut(cl[c].lockname))
       ELSE /\ cl' = [cl EXCEPT ![c].pc = "unlock_sleep", ![c].last = "none",
                                ![c].logged = NoLog, ![c].wire = NoSocket,
                                ![c].request = NoRequest]
            /\ result' = result
    /\ UNCHANGED <<now, serverUp, holder, nextNonce, held, other,
                 synchronized_locks, warnings>>

\* ---------------------------------------------------------------- environment
\* sleep(0.1): a caller that went to sleep runs again once a poll interval
\* has passed
Slept(l) ==
    CASE l.pc = "lock_sleep" -> [l EXCEPT !.pc = "lock_try"]
      [] l.pc = "unlock_sleep" -> [l EXCEPT !.pc = "unlock_try"]
      [] OTHER -> l

\* the managed block of a locked() with a timeout has run for one more
\* poll interval
Elapsed(l) ==
    IF l.pc = "block" /\ l.timeout.kind = "seconds" /\ l.ran <= l.timeout.v
    THEN [l EXCEPT !.ran = @ + 1]
    ELSE l

\* a poll interval passes
Tick ==
    /\ now < MaxTime
    /\ now' = now + 1
    /\ cl' = [c \in Callers |-> Elapsed(Slept(cl[c]))]
    /\ UNCHANGED <<serverUp, holder, nextNonce, held, result, other,
                 synchronized_locks, warnings>>

\* the server stops listening, or listens again, with its table kept
ServerStop ==
    /\ serverUp
    /\ serverUp' = FALSE
    /\ UNCHANGED <<now, holder, nextNonce, cl, held, result, other,
                 synchronized_locks, warnings>>

ServerStart ==
    /\ ~serverUp
    /\ serverUp' = TRUE
    /\ UNCHANGED <<now, holder, nextNonce, cl, held, result, other,
                 synchronized_locks, warnings>>

\* another client of the server takes a free name, or gives one back
OtherLock(lockname) ==
    /\ serverUp
    /\ holder[lockname] = NoNonce
    /\ nextNonce <= MaxNonce
    /\ holder' = [holder EXCEPT ![lockname] = nextNonce]
    /\ nextNonce' = nextNonce + 1
    /\ other' = other \cup {lockname}
    /\ UNCHANGED <<now, serverUp, cl, held, result,
                 synchronized_locks, warnings>>

OtherUnlock(lockname) ==
    /\ serverUp
    /\ lockname \in other
    /\ holder' = [holder EXCEPT ![lockname] = NoNonce]
    /\ other' = other \ {lockname}
    /\ UNCHANGED <<now, serverUp, nextNonce, cl, held, result,
                 synchronized_locks, warnings>>

\* the steps of caller c, its calls taking their timeouts from timeouts and
\* its connections meeting the events of events
CallerNext(c, timeouts, events) ==
    \/ \E op \in {"locked", "lock"}, lockname \in Names,
          timeout \in timeouts, server_required \in BOOLEAN :
         Start(c, op, lockname, timeout, server_required)
    \/ \E ev \in events : TryToLock(c, ev)
    \/ LockCheck(c)
    \/ \E how \in {"normal", "early", "E"} : Block(c, how)
    \/ \E lockname \in Names, timeout \in timeouts,
          nonce \in {BadNonce} \cup 1..MaxNonce, server_required \in BOOLEAN :
         StartUnlock(c, lockname, nonce, timeout, server_required)
    \/ \E ev \in events : TryToUnlock(c, ev)
    \/ UnlockCheck(c)

Environment ==
    \/ Tick
    \/ ServerStop
    \/ ServerStart

\* One caller of the lock client, with other clients of the same server
Main == "caller1"

Next ==
    \/ CallerNext(Main, Timeouts, Events)
    \/ \E lockname \in Names : OtherLock(lockname)
    \/ \E lockname \in Names : OtherUnlock(lockname)
    \/ Environment

Spec == Init /\ [][Next]_vars

\* Two callers of the lock client on one server.  Their calls have no
\* deadline, so the clock is left alone: Polled is Tick without it.
PairTimeouts == {NoTimeout}
PairEvents == {"refused", "garbled", "reply"}

Polled ==
    /\ cl' = [c \in Callers |-> Slept(cl[c])]
    /\ cl' # cl
    /\ UNCHANGED <<now, serverUp, holder, nextNonce, held, result, other,
                 synchronized_locks, warnings>>

PairNext ==
    \/ \E c \in Callers : CallerNext(c, PairTimeouts, PairEvents)
    \/ Polled
    \/ ServerStop
    \/ ServerStart

PairSpec == Init /\ [][PairNext]_vars

\* Two threads calling one function decorated with @synchronized, each from
\* one of the call sites, on one server; the calls have no deadline.
SyncCallerNext(c) ==
    \/ \E site \in CallSites : Synchronized(c, site)
    \/ \E ev \in PairEvents : TryToLock(c, ev)
    \/ LockCheck(c)
    \/ Registry(c)
    \/ RegistryStore(c)
    \/ \E how \in {"normal", "early", "E"} : Block(c, how)
    \/ \E ev \in PairEvents : TryToUnlock(c, ev)
    \/ UnlockCheck(c)

SyncNext ==
    \/ \E c \in Callers : SyncCallerNext(c)
    \/ Polled
    \/ ServerStop
    \/ ServerStart

SyncSpec == Init /\ [][SyncNext]_vars

\* One caller whose connections meet every response the client handles,
\* with the warnings of its calls recorded; its lock names include one that
\* holds the words 'Wrong nonce'.  The calls have no deadline.
WireNames == {"lock1", WRONG_NONCE_NAME}
WireEvents == Events \cup MissingKeyEvents \cup WrongEchoEvents

WireCallerNext(c) ==
    \/ \E op \in {"locked", "lock"}, lockname \in WireNames,
          server_required \in BOOLEAN :
         Start(c, op, lockname, NoTimeout, server_required)
    \/ \E ev \in WireEvents : TryToLock(c, ev)
    \/ LockCheck(c)
    \/ \E how \in {"normal", "early", "E"} : Block(c, how)
    \/ \E lockname \in WireNames, nonce \in {BadNonce} \cup 1..MaxNonce,
          server_required \in BOOLEAN :
         StartUnlock(c, lockname, nonce, NoTimeout, server_required)
    \/ \E ev \in WireEvents : TryToUnlock(c, ev)
    \/ UnlockCheck(c)

WireNext ==
    \/ WireCallerNext(Main)
    \/ Polled
    \/ ServerStop
    \/ ServerStart

WireSpec == InitWith(Warnings(TRUE)) /\ [][WireNext]_vars

\* ---------------------------------------------------------------- properties
LockStates == {"lock_try", "lock_check", "lock_sleep"}
UnlockStates == {"unlock_try", "unlock_check", "unlock_sleep"}

\* what the last connection of caller c met, in its call or at its end
LastEvent(c) == IF cl[c].pc = "idle" THEN result[c].last ELSE cl[c].last

\* Caller c is inside a locked section on name: in the managed block of
\* locked(name), or between lock(name) returning and its unlock() starting.
InSection(c, name) ==
    \/ cl[c].pc = "block" /\ cl[c].lockname = name
    \/ \E p \in held[c] : p[1] = name

\* C1: mutual exclusion: no two callers are inside a locked section on the
\* same lock name at the same time.
C1_MutualExclusion ==
    \A c1 \in Callers, c2 \in Callers, name \in Names :
        c1 # c2 => ~(InSection(c1, name) /\ InSection(c2, name))

\* a caller is in its section while the other has just been refused the
\* same name by the server
C1_Witness ==
    \E c1 \in Callers, c2 \in Callers, name \in Names :
        /\ c1 # c2
        /\ InSection(c1, name)
        /\ cl[c2].pc = "lock_check"
        /\ cl[c2].lockname = name
        /\ cl[c2].last = "reply"

\* C2: an unlock whose nonce is not the nonce of the current grant of the
\* name, once the server's response to it is read, ends the call with
\* LockFailed: unlock() does not return True and does not retry, and the
\* server's table is left as it was, so the holder's grant stays.
C2_BadNonceFails ==
    [][\A c \in Callers :
         ( /\ cl[c].pc = "unlock_try"
           /\ holder[cl[c].lockname] \notin {NoNonce, cl[c].nonce}
           /\ LastEvent(c)' = "reply" )
         => /\ cl'[c].pc = "idle"
            /\ result'[c].exc.type = "LockFailed"
            /\ ~result'[c].ret
            /\ holder' = holder]_vars

\* the caller holds a name, its unlock with the bad nonce has failed with
\* LockFailed and the grant is still in the server's table
C2_Witness ==
    \E c \in Callers : \E p \in held[c] :
        /\ result[c].op = "unlock"
        /\ result[c].nonce = BadNonce
        /\ result[c].last = "reply"
        /\ result[c].exc = Exc("LockFailed",
                               REJECTED_UNLOCK_MESSAGE(p[1], WRONG_NONCE))
        /\ holder[p[1]] = p[2]

\* C3: round trip: a lock request for a free name that the server answers
\* makes lock() return (True, nonce, pid) with the nonce of the grant, and an
\* unlock request with the name and nonce of the outstanding grant that the
\* server answers makes unlock() return True.
C3_RoundTrip ==
    [][\A c \in Callers :
         /\ ( /\ cl[c].pc = "lock_try"
              /\ cl[c].op = "lock"
              /\ holder[cl[c].lockname] = NoNonce
              /\ LastEvent(c)' = "reply" )
            => /\ cl'[c].pc = "idle"
               /\ result'[c].exc = NoExc
               /\ result'[c].ret
               /\ result'[c].nonce = holder'[cl[c].lockname]
               /\ result'[c].nonce # NoNonce
               /\ result'[c].pid = getpid(c)
               /\ <<cl[c].lockname, result'[c].nonce>> \in held'[c]
         /\ ( /\ cl[c].pc = "unlock_try"
              /\ cl[c].op = "unlock"
              /\ cl[c].nonce # NoNonce
              /\ holder[cl[c].lockname] = cl[c].nonce
              /\ LastEvent(c)' = "reply" )
            => /\ cl'[c].pc = "idle"
               /\ result'[c].exc = NoExc
               /\ result'[c].ret
               /\ holder'[cl[c].lockname] = NoNonce]_vars

\* unlock() has returned True on the server's answer, for a nonce that
\* lock() returned
C3_Witness ==
    \E c \in Callers :
        /\ result[c].op = "unlock"
        /\ result[c].ret
        /\ result[c].last = "reply"
        /\ result[c].nonce \in 1..MaxNonce

\* C4: timeout bound: a lock() with a deadline makes at most one attempt
\* after the deadline has passed, never sleeps once the deadline has passed,
\* and the deadline check that finds it passed raises LockTimeout
\* ('lock timed out: <lockname>').
C4_TimeoutBound ==
    [][\A c \in Callers :
         /\ ( /\ cl[c].pc = "lock_check"
              /\ AfterDeadline(cl[c].deadline, now)
              /\ cl'[c] # cl[c] )
            => /\ cl'[c].pc = "idle"
               /\ result'[c].exc = LockTimedOut(cl[c].lockname)
         /\ cl'[c].pc \in LockStates => cl'[c].late <= 1
         /\ cl'[c].pc = "lock_sleep" => ~AfterDeadline(cl'[c].deadline, now')
       ]_vars

\* lock() has raised LockTimeout after one attempt past its deadline, on a
\* name another client holds
C4_Witness ==
    \E c \in Callers, name \in other :
        /\ result[c].op = "lock"
        /\ result[c].exc = LockTimedOut(name)
        /\ result[c].late = 1
        /\ result[c].last = "reply"

\* C5: with server_required=True a refused connection ends lock() at once
\* with the 'no lock server' LockFailed: the call is not in its retry loop
\* after a refused connection.
C5_NoServerIsFatal ==
    \A c \in Callers :
        (cl[c].pc = "lock_check" /\ cl[c].last = "refused")
            => ~cl[c].server_required

\* C6: with server_required=False a refused connection makes lock() return
\* to its caller: the call is not in its retry loop after a refused
\* connection.
C6_NoServerTolerated ==
    \A c \in Callers :
        (cl[c].pc = "lock_check" /\ cl[c].last = "refused")
            => cl[c].server_required

\* C7: scoped release: locked() calls unlock() exactly once if its lock()
\* returned, whatever way the managed block ends, and never otherwise.
C7_ScopedRelease ==
    \A c \in Callers :
        /\ cl[c].op = "locked" =>
              cl[c].unlock_calls = (IF cl[c].pc \in UnlockStates THEN 1 ELSE 0)
        /\ result[c].op = "locked" =>
              result[c].unlock_calls = (IF result[c].block_ran THEN 1 ELSE 0)

\* locked() has ended after a block that raised, having called unlock()
C7_Witness ==
    \E c \in Callers :
        /\ result[c].op = "locked"
        /\ result[c].block_ran
        /\ result[c].pending = "E"
        /\ result[c].unlock_calls = 1

\* C8: scoped release on exception: when the block raised E and unlock()
\* then returned True, unlock() was called once and E leaves locked().
C8_ExceptionPropagates ==
    \A c \in Callers :
        ( /\ result[c].op = "locked"
          /\ result[c].pending = "E"
          /\ result[c].unlock_ret )
        => /\ result[c].exc = Exc("E", NoMsg)
           /\ result[c].unlock_calls = 1

\* the block raised E and the server confirmed the release
C8_Witness ==
    \E c \in Callers :
        /\ result[c].op = "locked"
        /\ result[c].pending = "E"
        /\ result[c].unlock_ret
        /\ result[c].last = "reply"

\* C9: when the block raised E and unlock() itself failed, E still leaves
\* locked().
C9_ReleaseFailureDoesNotMask ==
    \A c \in Callers :
        ( /\ result[c].op = "locked"
          /\ result[c].pending = "E"
          /\ result[c].block_ran
          /\ ~result[c].unlock_ret )
        => result[c].exc = Exc("E", NoMsg)

\* C10: when lock() raises inside locked(), that exception leaves locked(),
\* the managed block is not run and no unlock is called or sent.
C10_LockRaisePropagates ==
    \A c \in Callers :
        (result[c].op = "locked" /\ result[c].lock_exc # NoExc)
        => /\ result[c].exc = result[c].lock_exc
           /\ ~result[c].block_ran
           /\ result[c].unlock_calls = 0
           /\ ~result[c].unlock_sent

\* locked() has ended with the LockTimeout its lock() raised
C10_Witness ==
    \E c \in Callers :
        /\ result[c].op = "locked"
        /\ result[c].lock_exc.type = "LockTimeout"
        /\ result[c].exc.type = "LockTimeout"

\* C11: release timeout: when the deadline check of unlock() finds the
\* deadline passed, the release still not confirmed, the call ends by
\* raising LockTimeout and no other exception type.
C11_ReleaseTimesOut ==
    [][\A c \in Callers :
         ( /\ cl[c].pc = "unlock_check"
           /\ DeadlinePassed(cl[c].deadline, now)
           /\ cl'[c] # cl[c] )
         => /\ cl'[c].pc = "idle"
            /\ result'[c].exc.type = "LockTimeout"]_vars

\* C12: fail-safe decoding on release: unlock() returns True only after a
\* response that was parsed (and confirms the release), never on a response
\* it could not parse.
C12_ReleaseOnlyOnParsedReply ==
    \A c \in Callers :
        /\ (result[c].op = "unlock" /\ result[c].ret)
              => result[c].last = "reply"
        /\ (result[c].op = "locked" /\ result[c].unlock_ret)
              => result[c].last = "reply"

Holds(c, name) == \E p \in held[c] : p[1] = name

\* C15: the lock is not reentrant: the grants a caller keeps stay in the
\* server's table; a lock() on a name the caller itself holds is rejected
\* whenever the server answers, never returns, and ends, unless the
\* connection itself is reset, by LockTimeout('lock timed out: <name>'),
\* with the pairs the caller keeps untouched; the unlock() with the original
\* nonce that the server answers then returns True.
C15_NotReentrant ==
    [][\A c \in Callers :
         /\ \A p \in held[c] : holder[p[1]] = p[2]
         /\ ( /\ cl[c].pc = "lock_try"
              /\ cl[c].op = "lock"
              /\ Holds(c, cl[c].lockname)
              /\ cl'[c] # cl[c] )
            => /\ held'[c] = held[c]
               /\ holder' = holder
               /\ ~result'[c].ret
               /\ LastEvent(c)' # "reset" => cl'[c].pc = "lock_check"
         /\ ( /\ cl[c].pc = "lock_check"
              /\ cl[c].op = "lock"
              /\ Holds(c, cl[c].lockname)
              /\ cl'[c].pc = "idle" )
            => /\ held'[c] = held[c]
               /\ result'[c].exc.type = "LockTimeout"
               /\ result'[c].exc.msg =
                      Msg("lock timed out", cl[c].lockname, "")
         /\ ( /\ cl[c].pc = "unlock_try"
              /\ cl[c].op = "unlock"
              /\ cl[c].nonce # NoNonce
              /\ holder[cl[c].lockname] = cl[c].nonce
              /\ LastEvent(c)' = "reply" )
            => result'[c].ret]_vars

\* lock() on a name the caller holds has ended with LockTimeout, and the
\* caller's grant is still in the server's table
C15_Witness ==
    \E c \in Callers : \E p \in held[c] :
        /\ result[c].op = "lock"
        /\ result[c].exc.type = "LockTimeout"
        /\ result[c].exc.msg = Msg("lock timed out", p[1], "")
        /\ result[c].last = "reply"
        /\ holder[p[1]] = p[2]

\* C16: locks with different names are independent: a lock() of a free name
\* by a caller that holds other names, once the server answers, returns at
\* once with a nonce different from those it holds and with the caller's
\* pid, and leaves the other grants alone; the pairs a caller keeps have
\* different nonces; an unlock request changes the server's table only for
\* its own name and only when it carries the nonce of that name's grant,
\* whichever other names are held.
C16_IndependentNames ==
    [][\A c \in Callers :
         /\ \A p \in held[c], q \in held[c] : p # q => p[2] # q[2]
         /\ ( /\ cl[c].pc = "lock_try"
              /\ cl[c].op = "lock"
              /\ held[c] # {}
              /\ ~Holds(c, cl[c].lockname)
              /\ holder[cl[c].lockname] = NoNonce
              /\ LastEvent(c)' = "reply" )
            => /\ cl'[c].pc = "idle"
               /\ result'[c].ret
               /\ result'[c].pid = getpid(c)
               /\ held'[c] = held[c] \cup {<<cl[c].lockname, result'[c].nonce>>}
               /\ \A p \in held[c] : /\ result'[c].nonce # p[2]
                                     /\ holder'[p[1]] = p[2]
         /\ ( cl[c].pc = "unlock_try" /\ cl[c].op = "unlock" /\ cl'[c] # cl[c] )
            => \A n \in Names :
                  holder'[n] # holder[n]
                     => /\ n = cl[c].lockname
                        /\ holder[n] = cl[c].nonce
                        /\ holder'[n] = NoNonce
         /\ ( /\ cl[c].pc = "unlock_try"
              /\ cl[c].op = "unlock"
              /\ held[c] # {}
              /\ cl[c].nonce # NoNonce
              /\ LastEvent(c)' = "reply" )
            => result'[c].ret = (holder[cl[c].lockname] = cl[c].nonce)]_vars

\* a caller holds two names, under different nonces, both in the server's
\* table
C16_Witness ==
    \E c \in Callers : \E p \in held[c], q \in held[c] :
        /\ p[1] # q[1]
        /\ p[2] # q[2]
        /\ holder[p[1]] = p[2]
        /\ holder[q[1]] = q[2]

\* caller c runs the body of the decorated function
InBody(c) == cl[c].pc = "block" /\ cl[c].sync = "body"

\* C17: @synchronized serialises a function: no two calls of the decorated
\* function, from whatever call sites, run its body at the same time.
C17_SynchronizedSerialises ==
    \A c1 \in Callers, c2 \in Callers :
        c1 # c2 => ~(InBody(c1) /\ InBody(c2))

\* C18: the timeout bounds only waiting, not holding: the managed block of
\* a locked(timeout=T) is ended by nothing but itself, however long it runs;
\* the unlock() that follows takes its deadline from the time it starts;
\* and after a block that ran for longer than T and ended normally, the
\* unlock that the server answers releases the grant and locked() ends
\* without an exception.
C18_TimeoutBoundsWaitingOnly ==
    [][\A c \in Callers :
         /\ ( /\ cl[c].op = "locked"
              /\ cl[c].pc = "block"
              /\ cl[c].timeout.kind = "seconds" )
            => /\ \/ cl'[c].pc = "block"
                  \/ /\ cl'[c].pc = "unlock_try"
                     /\ cl'[c].deadline = {now + cl[c].timeout.v}
               /\ result'[c] = result[c]
               /\ holder'[cl[c].lockname] = cl[c].nonce
         /\ ( /\ cl[c].op = "locked"
              /\ cl[c].pc = "unlock_try"
              /\ cl[c].overran
              /\ cl[c].pending = "none"
              /\ LastEvent(c)' = "reply" )
            => /\ cl'[c].pc = "idle"
               /\ result'[c].exc = NoExc
               /\ result'[c].unlock_ret
               /\ holder'[cl[c].lockname] = NoNonce]_vars

\* locked() with a timeout has ended normally, its lock released, after a
\* block that ran for longer than the timeout
C18_Witness ==
    \E c \in Callers :
        /\ result[c].op = "locked"
        /\ result[c].overran
        /\ result[c].exc = NoExc
        /\ result[c].unlock_ret
        /\ result[c].last = "reply"

\* C19: release frees the name: once unlock(name, nonce, pid) has returned
\* True the server no longer has the grant of that nonce, so that a lock()
\* of the name with no other contender is granted on its first request.
C19_ReleaseFreesTheName ==
    \A c \in Callers :
        (cl[c].pc = "idle" /\ result[c].op = "unlock" /\ result[c].ret)
            => \A n \in Names : holder[n] # result[c].nonce

\* C20: fail-safe decoding on acquire: an attempt of lock() whose response
\* does not parse logs the traceback and leaves is_locked false and the
\* nonce None: lock() does not return or raise on it, and the deadline
\* check that follows goes on to the sleep and the next poll unless the
\* deadline has passed.
C20_UnparseableLockResponse ==
    [][\A c \in Callers :
         /\ ( /\ cl[c].pc = "lock_try"
              /\ cl'[c] # cl[c]
              /\ LastEvent(c)' \in {"closed", "garbled"} )
            => /\ cl'[c].pc = "lock_check"
               /\ cl'[c].logged = LOG_FORMAT_EXC
               /\ ~cl'[c].is_locked
               /\ cl'[c].nonce = NoNonce
               /\ held' = held
               /\ result' = result
         /\ ( /\ cl[c].pc = "lock_check"
              /\ cl[c].last \in {"closed", "garbled"}
              /\ cl'[c] # cl[c] )
            => IF DeadlinePassed(cl[c].deadline, now)
               THEN cl'[c].pc = "idle" /\ result'[c].exc.type = "LockTimeout"
               ELSE cl'[c].pc = "lock_sleep" /\ cl'[c].nonce = NoNonce
         /\ ( cl[c].pc = "lock_sleep" /\ cl'[c] # cl[c] )
            => cl'[c] = [cl[c] EXCEPT !.pc = "lock_try"]]_vars

\* lock() is in its loop after a response that did not parse, with the
\* traceback logged, before its deadline
C20_Witness ==
    \E c \in Callers :
        /\ cl[c].pc = "lock_check"
        /\ cl[c].last = "garbled"
        /\ cl[c].logged = LOG_FORMAT_EXC
        /\ cl[c].deadline # {}
        /\ ~DeadlinePassed(cl[c].deadline, now)

\* C21: a malformed response, one that cannot be parsed or whose parsed
\* value lacks one of the keys ok, action, lockname and nonce, is logged and
\* counts as a failed attempt: lock() and unlock() go on to the deadline
\* check of their loop, and the call neither returns nor raises.
C21_MalformedResponseRetried ==
    [][\A c \in Callers :
         ( /\ cl[c].pc \in {"lock_try", "unlock_try"}
           /\ LastEvent(c)' \in {"garbled"} \cup MissingKeyEvents )
         => /\ cl'[c].pc = (IF cl[c].pc = "lock_try" THEN "lock_check"
                                                     ELSE "unlock_check")
            /\ \/ cl'[c].logged # NoLog
               \/ warnings'[c].last_warning # NoMsg]_vars

\* C22: in lock() and unlock() a rejection is raised to the caller as
\* LockFailed if and only if the reason the server gave is a nonce mismatch:
\* a LockFailed that ends a call carries that reason, and no rejection with
\* that reason is absorbed into the warnings of the retry loop.
C22_OnlyNonceMismatchIsFatal ==
    \A c \in Callers :
        /\ result[c].exc.type = "LockFailed"
              => result[c].exc.msg.why = WRONG_NONCE
        /\ warnings[c].last_warning.why # WRONG_NONCE

\* C23: within one call of lock() or unlock() a rejection reason is logged
\* once: no message is logged that was logged before in the same call,
\* whatever was received in between.
C23_WarningLoggedOncePerCall ==
    \A c \in Callers : \A message \in warnings[c].repeated :
        message.text \notin {"rejected lock", "rejected unlock"}

\* C24: every exception that the retry loop of lock() or unlock() raises to
\* its caller is preceded, within the call, by a log entry of the lock
\* client: a call that ended with such an exception has logged in its last
\* pass.
C24_LoggedBeforeRaise ==
    \A c \in Callers :
        ( /\ result[c].op \in {"lock", "unlock"}
          /\ result[c].exc.type \notin {"none", "ValueError"} )
        => result[c].logged # NoLog

InRegistryBlock(c) ==
    cl[c].sync = "registry" /\ cl[c].pc \in {"block", "registry_store"}

\* C26: the registry synchronized_locks is read and written under mutual
\* exclusion: no two threads are in the check-then-insert block at the same
\* time, and the registry holds at most one lock object per function name.
C26_RegistryExclusive ==
    /\ \A c1 \in Callers, c2 \in Callers :
           c1 # c2 => ~(InRegistryBlock(c1) /\ InRegistryBlock(c2))
    /\ \A e1 \in synchronized_locks, e2 \in synchronized_locks :
           e1[1] = e2[1] => e1 = e2

\* what the last attempt of caller c did with its socket, in its call or at
\* its end
Wire(c) == IF cl[c].pc = "idle" THEN result[c].wire ELSE cl[c].wire

Request(c) == IF cl[c].pc = "idle" THEN result[c].request ELSE cl[c].request

\* C28: ownership is passed through unchanged: lock() returns the nonce the
\* server granted in that attempt with the pid of the caller; locked()
\* enters its block with that nonce, pid and the lock name it resolved,
\* keeps them over the block, and every unlock request it sends carries
\* exactly that name, nonce and pid.
C28_OwnershipPassedThrough ==
    [][\A c \in Callers :
         /\ ( /\ cl[c].pc = "lock_try"
              /\ cl[c].op = "lock"
              /\ cl'[c].pc = "idle"
              /\ result'[c].ret )
            => /\ holder[cl[c].lockname] = NoNonce
               /\ result'[c].nonce = holder'[cl[c].lockname]
               /\ result'[c].nonce # NoNonce
               /\ result'[c].pid = getpid(c)
         /\ ( /\ cl[c].pc = "lock_try"
              /\ cl'[c].pc = "block" )
            => /\ holder[cl[c].lockname] = NoNonce
               /\ cl'[c].nonce = holder'[cl[c].lockname]
               /\ cl'[c].nonce # NoNonce
               /\ cl'[c].pid = getpid(c)
               /\ cl'[c].lockname = cl[c].lockname
         /\ ( /\ cl[c].pc = "block"
              /\ cl'[c].pc = "unlock_try" )
            => /\ cl'[c].nonce = cl[c].nonce
               /\ cl'[c].pid = cl[c].pid
               /\ cl'[c].lockname = cl[c].lockname
         /\ ( /\ cl[c].pc = "unlock_try"
              /\ cl[c].op = "locked"
              /\ cl'[c] # cl[c] )
            => /\ Request(c)' \in
                      {NoRequest,
                       [action |-> "unlock", lockname |-> cl[c].lockname,
                        nonce |-> cl[c].nonce, pid |-> getpid(c)]}
               /\ LastEvent(c)' \in Handled => Request(c)' # NoRequest
               /\ cl'[c].pc # "idle"
                     => /\ cl'[c].nonce = cl[c].nonce
                        /\ cl'[c].pid = cl[c].pid
                        /\ cl'[c].lockname = cl[c].lockname]_vars

\* locked() has ended after its unlock request, which carried the nonce of
\* the grant and the pid of the caller, was confirmed
C28_Witness ==
    \E c \in Callers :
        /\ cl[c].pc = "idle"
        /\ result[c].op = "locked"
        /\ result[c].unlock_ret
        /\ result[c].nonce # NoNonce
        /\ result[c].request.action = "unlock"
        /\ result[c].request.nonce = result[c].nonce
        /\ result[c].request.pid = getpid(c)

C30_GrantValidated ==
    [][\A c \in Callers :
         ( /\ cl[c].pc = "lock_try"
           /\ holder[cl[c].lockname] = NoNonce
           /\ LastEvent(c)' \in WrongEchoEvents )
         => /\ held' = held
            /\ ~cl'[c].is_locked
            /\ cl'[c].nonce = NoNonce
            /\ \/ /\ cl'[c].pc = "lock_check"
                  /\ result' = result
                  /\ warnings'[c].last_warning =
                         Msg("rejected lock", cl[c].lockname,
                             "safelock did not say why")
               \/ /\ Contains(cl[c].lockname)
                  /\ cl'[c].pc = "idle"
                  /\ ~result'[c].ret
                  /\ result'[c].nonce = NoNonce
                  /\ result'[c].lock_exc =
                         Exc("LockFailed",
                             Msg("rejected lock", cl[c].lockname,
                                 "safelock did not say why"))]_vars

\* a lock() is at its deadline check after a response with ok true that
\* echoed another lock name: the server has granted the name, the caller has
\* no nonce
C30_Witness ==
    \E c \in Callers :
        /\ cl[c].pc = "lock_check"
        /\ cl[c].last = "wrong_name"
        /\ cl[c].nonce = NoNonce
        /\ holder[cl[c].lockname] # NoNonce
        /\ held[c] = {}

====
